---- MODULE Spec2Model ----
(***************************************************************************)
(* Gesture-controlled particle choreography (App, HandManager,             *)
(* PhotoCollection, TreeFoliage) as a state machine.                        *)
(*                                                                         *)
(* One action per handler or callback.  Each action includes the React     *)
(* re-render and the effects the handler's state updates trigger: the      *)
(* prediction effect of HandManager (deps [stream, modelLoaded]) and the   *)
(* focus effect of PhotoCollection (deps [mode, photos]).                  *)
(*                                                                         *)
(* Effects run once per dependency change, as in a production build (the   *)
(* development-only double invocation of React.StrictMode is not          *)
(* modelled).  Landmark coordinates are integers in units of 1/100,        *)
(* pointer coordinates in units of 1/200, and the foliage coordinate is a  *)
(* fixed-point integer (the product in lerp is rounded down).              *)
(***************************************************************************)
EXTENDS Integers, Sequences, FiniteSets, TLC

\* ------------------------------------------------------------------ bounds
MaxPhotos == 3      \* photos uploaded in a session
MaxBatch == 2       \* files chosen in one upload
MaxTime == 2        \* video timestamps 0..MaxTime
MaxStarts == 2      \* getUserMedia requests in flight at once
MaxTicks == 3       \* animation ticks followed for one record

\* --------------------------------------------------------------- constants
NULL == -1          \* activeId: useState<number | null>(null)
NoFrame == -1       \* let lastVideoTime = -1
Half == 100         \* pointer coordinates are in units of 1/200: 0.5 = 100

AppMode == {"TREE", "SCATTER", "INSPECT"}
Gesture == {"FIST", "OPEN", "PINCH", "NONE"}

VARIABLES
    mode,           \* App: useState<AppMode>(AppMode.TREE)
    photos,         \* App: useState<string[]>([]); a url is its creation number
    handPos,        \* App: useState({x: 0.5, y: 0.5}), in units of 1/200
    debugGesture,   \* App: useState<string>('NONE')
    gameStarted,    \* App: useState(false)
    cameraStream,   \* App: useState<MediaStream | null>(null); 0 is null
    startError,     \* App: useState<string>(''); TRUE when non-empty
    pendingStarts,  \* getUserMedia promises of handleStart not yet settled
    model,          \* HandManager: "loading" | "loaded" (modelLoaded) | "error" (modelError)
    effectLive,     \* the prediction effect ran past its guard and is not cleaned up
    cbPhotoLen,     \* photos.length inside the onGestureUpdate the live effect closed over
    loadedPending,  \* the video element still owes the 'loadeddata' event
    rafPending,     \* requestRef.current names a scheduled predictWebcam
    lastVideoTime,  \* predictWebcam's closure variable
    videoTime,      \* videoRef.current.currentTime
    emitsForLast,   \* HandStates emitted for timestamp lastVideoTime by the live loop
    activeId,       \* PhotoCollection: useState<number | null>(null)
    foliageZ,       \* TreeFoliage particle 0: currentPos.z
    scatterZ,       \* TreeFoliage particle 0: initialPos.z (drawn once by getScatterPos)
    mounted,        \* the React tree is mounted
    prevMode,       \* the mode in which the last HandState was handled
    probe,          \* the call of a pure function under examination: its inputs and result
    e2e             \* modes produced while the run follows the script OPEN, OPEN, PINCH

vars == <<mode, photos, handPos, debugGesture, gameStarted, cameraStream, startError,
          pendingStarts, model, effectLive, cbPhotoLen, loadedPending, rafPending,
          lastVideoTime, videoTime, emitsForLast, activeId, foliageZ, scatterZ,
          mounted, prevMode, probe, e2e>>


\* ------------------------------------------------------- gesture classifier
\* A landmark is [x, y] in units of 1/100 of the normalized frame; a hand maps
\* the landmark indices detectGesture reads to landmarks.
LandmarkIdx == {0, 2, 4, 5, 8, 9, 12, 13, 16, 17, 20}

\* Math.hypot(a.x - b.x, a.y - b.y), squared
Dist2(a, b) == (a.x - b.x) * (a.x - b.x) + (a.y - b.y) * (a.y - b.y)

\* Variants of isFingerExtended: >= for >, and factor 2 for factor 1.5.
isFingerExtended_Inclusive(landmarks, tipIdx, mcpIdx) ==
    4 * Dist2(landmarks[tipIdx], landmarks[0]) >= 9 * Dist2(landmarks[mcpIdx], landmarks[0])

isFingerExtended_Factor2(landmarks, tipIdx, mcpIdx) ==
    Dist2(landmarks[tipIdx], landmarks[0]) > 4 * Dist2(landmarks[mcpIdx], landmarks[0])

\* distTip > distMcp * 1.5, on the squares: 4 * distTip^2 > 9 * distMcp^2
isFingerExtended(landmarks, tipIdx, mcpIdx) ==
    4 * Dist2(landmarks[tipIdx], landmarks[0]) > 9 * Dist2(landmarks[mcpIdx], landmarks[0])

extendedCount(landmarks) ==
    Cardinality({f \in {<<4, 2>>, <<8, 5>>, <<12, 9>>, <<16, 13>>, <<20, 17>>} :
                    isFingerExtended(landmarks, f[1], f[2])})

\* pinchDist < 0.05, on the squares: 0.05 is 5 units
PinchClose(landmarks) == Dist2(landmarks[8], landmarks[4]) < 25

\* Variant of detectGesture that tests the extension counts before the pinch.
detectGesture_ExtensionFirst(landmarks) ==
    IF extendedCount(landmarks) = 5 THEN "OPEN"
    ELSE IF extendedCount(landmarks) = 0 THEN "FIST"
    ELSE IF PinchClose(landmarks) THEN "PINCH"
    ELSE "NONE"

detectGesture(landmarks) ==
    IF PinchClose(landmarks) THEN "PINCH"
    ELSE IF extendedCount(landmarks) = 5 THEN "OPEN"
    ELSE IF extendedCount(landmarks) = 0 THEN "FIST"
    ELSE "NONE"

\* handPosition: {x: 1 - (l0.x + l9.x) / 2, y: (l0.y + l9.y) / 2}, in units of 1/200
Pointer(landmarks) ==
    [x |-> 200 - (landmarks[0].x + landmarks[9].x),
     y |-> landmarks[0].y + landmarks[9].y]

NoHandPointer == [x |-> Half, y |-> Half]

P(x, y) == [x |-> x, y |-> y]

\* Hand poses the detector returns in this model.
OpenHand ==
    (0 :> P(50, 80)) @@ (2 :> P(40, 70)) @@ (4 :> P(25, 60)) @@ (5 :> P(45, 60)) @@
    (8 :> P(42, 25)) @@ (9 :> P(50, 60)) @@ (12 :> P(50, 20)) @@ (13 :> P(55, 60)) @@
    (16 :> P(58, 25)) @@ (17 :> P(60, 62)) @@ (20 :> P(68, 35))

FistHand ==
    [OpenHand EXCEPT ![4] = P(40, 72), ![8] = P(46, 66), ![12] = P(50, 66),
                     ![16] = P(54, 66), ![20] = P(58, 68)]

\* open hand, thumb tip on index tip
PinchHand == [OpenHand EXCEPT ![4] = P(44, 40), ![8] = P(46, 38)]

\* closed hand, thumb tip on index tip
PinchFistHand == [FistHand EXCEPT ![4] = P(44, 68)]

\* index and middle finger extended only
PeaceHand == [OpenHand EXCEPT ![4] = P(40, 72), ![16] = P(54, 66), ![20] = P(58, 68)]

Shift(landmarks, dx) ==
    [i \in DOMAIN landmarks |-> P(landmarks[i].x + dx, landmarks[i].y)]

Hands == {OpenHand, Shift(FistHand, -20), PinchHand, PinchFistHand, PeaceHand}

\* The grid of landmark sets the classifier is examined on: wrist and base
\* joints as in OpenHand, every fingertip from a few positions that include the
\* boundaries of the two comparisons (tip distance exactly 1.5 times the base
\* distance, pinch distance exactly 0.05).
ThumbTips == {P(40, 72), P(25, 60), P(44, 40), P(44, 68)}
IndexTips == {P(46, 66), P(42, 25), P(46, 38), P(47, 44)}
MiddleTips == {P(50, 66), P(50, 50), P(50, 49), P(50, 20)}
RingTips == {P(54, 66), P(58, 25)}
PinkyTips == {P(58, 68), P(68, 35)}

GridHands ==
    {[OpenHand EXCEPT ![4] = t4, ![8] = t8, ![12] = t12, ![16] = t16, ![20] = t20] :
        t4 \in ThumbTips, t8 \in IndexTips, t12 \in MiddleTips,
        t16 \in RingTips, t20 \in PinkyTips}

\* ------------------------------------------------------------ tree layout
TREE_HEIGHT == 18
\* TREE_RADIUS = 7.5, kept as its double to stay in the integers
TREE_RADIUS_x2 == 15

\* y is yNum / (2 * total), radiusAtHeight is radNum / (4 * total * TREE_HEIGHT)
TreeYDen(total) == 2 * total
TreeRadiusDen(total) == 4 * total * TREE_HEIGHT

\* Variant of getTreeData that counts the index down from the top.
getTreeData_ApexFirst(index, total) ==
    LET yNum == total * TREE_HEIGHT - 2 * index * TREE_HEIGHT
    IN  [yNum |-> yNum,
         radNum |-> (total * TREE_HEIGHT - yNum) * TREE_RADIUS_x2]

\* y = (index / total) * TREE_HEIGHT - TREE_HEIGHT / 2
\* radiusAtHeight = (TREE_HEIGHT / 2 - y) * (TREE_RADIUS / TREE_HEIGHT)
getTreeData(index, total) ==
    LET yNum == 2 * index * TREE_HEIGHT - total * TREE_HEIGHT
    IN  [yNum |-> yNum,
         radNum |-> (total * TREE_HEIGHT - yNum) * TREE_RADIUS_x2]

\* PhotoCollection render, photo i of n: getTreeData(i * 10, 1000 + n).pos.y * 1.3,
\* as the fraction num / den (both halved, which is exact, to keep the products small)
PhotoTreeY(i, n) ==
    [num |-> (getTreeData(i * 10, 1000 + n).yNum \div 2) * 13,
     den |-> (TreeYDen(1000 + n) \div 2) * 10]

\* the totals the layout is examined for: 100, and 1000 + photos.length
TreeTotals == {100} \cup {1000 + n : n \in 1..MaxPhotos}

\* ------------------------------------------------------------ mode controller
\* Variants of handleGestureUpdate with one plausible slip each.
GestureMode_FistKeepsInspect(prev, g, len) ==
    IF g = "FIST" THEN (IF prev = "INSPECT" THEN prev ELSE "TREE")
    ELSE IF g = "OPEN" THEN "SCATTER"
    ELSE IF g = "PINCH" THEN (IF prev # "INSPECT" /\ len > 0 THEN "INSPECT" ELSE prev)
    ELSE prev

GestureMode_OpenGuarded(prev, g, len) ==
    IF g = "FIST" THEN "TREE"
    ELSE IF g = "OPEN" THEN (IF prev = "INSPECT" THEN prev ELSE "SCATTER")
    ELSE IF g = "PINCH" THEN (IF prev # "INSPECT" /\ len > 0 THEN "INSPECT" ELSE prev)
    ELSE prev

GestureMode_NoneResets(prev, g, len) ==
    IF g = "FIST" THEN "TREE"
    ELSE IF g = "OPEN" THEN "SCATTER"
    ELSE IF g = "PINCH" THEN (IF prev # "INSPECT" /\ len > 0 THEN "INSPECT" ELSE prev)
    ELSE "TREE"

GestureMode_PinchUnguarded(prev, g, len) ==
    IF g = "FIST" THEN "TREE"
    ELSE IF g = "OPEN" THEN "SCATTER"
    ELSE IF g = "PINCH" THEN "INSPECT"
    ELSE prev

GestureMode_PinchToggles(prev, g, len) ==
    IF g = "FIST" THEN "TREE"
    ELSE IF g = "OPEN" THEN "SCATTER"
    ELSE IF g = "PINCH" THEN (IF prev # "INSPECT" /\ len > 0 THEN "INSPECT" ELSE "SCATTER")
    ELSE prev

\* handleGestureUpdate: the mode after a HandState with gesture g, where len is
\* photos.length as the callback's closure holds it.
GestureMode(prev, g, len) ==
    IF g = "FIST" THEN "TREE"
    ELSE IF g = "OPEN" THEN "SCATTER"
    ELSE IF g = "PINCH" THEN (IF prev # "INSPECT" /\ len > 0 THEN "INSPECT" ELSE prev)
    ELSE prev

\* Variant of AppendPhotos: setPhotos(newPhotos)
AppendPhotos_Replace(prev, newPhotos) == newPhotos

\* handlePhotoUpload: setPhotos(prev => [...prev, ...newPhotos])
AppendPhotos(prev, newPhotos) == prev \o newPhotos

\* URL.createObjectURL gives every file a fresh url
NewUrls(prev, k) == [i \in 1..k |-> Len(prev) + i]

\* --------------------------------------------------------- photo collection
\* Math.floor(Math.random() * photos.length)
RandomIdx(ph) == IF Len(ph) > 0 THEN 0..(Len(ph) - 1) ELSE {0}

\* The focus effect, run with mode m, photos ph and random draw r.
FocusEffect(m, ph, r) ==
    IF m = "INSPECT" /\ Len(ph) > 0 THEN r ELSE NULL

\* Variant of the isActive prop: every photo is active once a focus is chosen.
IsActive_AnyWhenSet(i, aid) == aid # NULL

\* isActive={i === activeId}
IsActive(i, aid) == i = aid

Focused == {i \in 0..(Len(photos) - 1) : IsActive(i, activeId)}

\* -------------------------------------------------------------- foliage tick
TreeZ == 0          \* getTreeData(0, count).pos.z = sin(0) * r
ScatterZs == {2}

\* TreeFoliage useFrame: the z of the target of particle 0
FoliageTargetZ(m, sz) ==
    IF m = "TREE" THEN TreeZ
    ELSE IF m = "SCATTER" THEN sz
    ELSE 2 * sz

\* Vector3.lerp(target, alpha) with alpha = num / den, on integer coordinates
Lerp(cur, target, num, den) == cur + ((target - cur) * num) \div den

\* lerp rates of the three useFrame callbacks: delta * 3, delta * 5, delta * 3
LerpRate(kind) == IF kind = "ribbon" THEN 5 ELSE 3

\* frame times delta, in seconds, as fractions: 50 ms, 200 ms, 1/3 s, 1/2 s
Deltas == {[num |-> 1, den |-> 20], [num |-> 1, den |-> 5],
           [num |-> 1, den |-> 3], [num |-> 1, den |-> 2]}

\* One coordinate (z) of one record of each kind, as the components hold it.
ParticleKinds == {"foliage", "ribbon", "photo"}
ParticleTreeZs == {0, 4}        \* treePos.z
ParticleScatterZs == {-3, 2}    \* initialPos.z

\* sin(angle) * r for the angles of an orbit around the trunk
OrbitZs(treeZ) == {0 - treeZ, 0, treeZ}

\* the z of the target the useFrame callback of the kind computes in mode m
ParticleTargets(kind, m, treeZ, initZ, isActive) ==
    IF kind = "foliage" THEN
        (IF m = "TREE" THEN {treeZ} ELSE IF m = "SCATTER" THEN {initZ} ELSE {2 * initZ})
    ELSE IF kind = "ribbon" THEN
        (IF m = "TREE" THEN OrbitZs(treeZ) ELSE {initZ})
    ELSE
        (IF m = "TREE" THEN OrbitZs(treeZ)
         ELSE IF m = "SCATTER" THEN {initZ}
         ELSE IF isActive THEN {15}
         ELSE {2 * initZ})

\* Variant of RenderCurrentPos: a photo's position is rebuilt from the treePos prop.
RenderCurrentPos_Reinit(kind, cur, treeZ) == IF kind = "photo" THEN treeZ ELSE cur

\* currentPos over a re-render: useMemo(..., [count]) keeps the foliage and ribbon
\* records, useRef keeps the photo's vector and ignores its argument after the mount
RenderCurrentPos(kind, cur, treeZ) == cur

\* e2e observer
Script == <<"OPEN", "OPEN", "PINCH">>
Off == <<"OFF">>
E2ENext(e, g, len, m2) ==
    IF e # Off /\ Len(e) < Len(Script) /\ g = Script[Len(e) + 1] /\ len = 3
    THEN Append(e, m2) ELSE Off

\* ------------------------------------------------------------------- state
\* The state after construction, of everything but the probe.
AppInit ==
    /\ mode = "TREE"
    /\ photos = <<>>
    /\ handPos = NoHandPointer
    /\ debugGesture = "NONE"
    /\ gameStarted = FALSE
    /\ cameraStream = 0
    /\ startError = FALSE
    /\ pendingStarts = 0
    /\ model = "loading"
    /\ effectLive = FALSE
    /\ cbPhotoLen = 0
    /\ loadedPending = FALSE
    /\ rafPending = FALSE
    /\ lastVideoTime = NoFrame
    /\ videoTime = 0
    /\ emitsForLast = 0
    /\ activeId = NULL
    /\ foliageZ = TreeZ
    /\ scatterZ \in ScatterZs
    /\ mounted = TRUE
    /\ prevMode = "TREE"
    /\ e2e = <<>>

NoProbe == [op |-> "none"]

Init == AppInit /\ probe = NoProbe

appVars == <<mode, photos, handPos, debugGesture, activeId, prevMode, e2e>>
fieldVars == <<foliageZ, scatterZ, probe>>
loopVars == <<effectLive, cbPhotoLen, loadedPending, rafPending, lastVideoTime,
              videoTime, emitsForLast>>

\* Variant of the prediction effect whose guard forgets modelLoaded.
PredictionEffect_NoModelGuard(stream, modelState) ==
    IF stream # 0
    THEN /\ effectLive' = TRUE
         /\ cbPhotoLen' = Len(photos)
         /\ loadedPending' = TRUE
         /\ rafPending' = FALSE
         /\ lastVideoTime' = NoFrame
         /\ videoTime' = 0
         /\ emitsForLast' = 0
    ELSE /\ effectLive' = FALSE
         /\ loadedPending' = FALSE
         /\ rafPending' = FALSE
         /\ UNCHANGED <<cbPhotoLen, lastVideoTime, videoTime, emitsForLast>>

\* Variant of the prediction effect whose cleanup forgets cancelAnimationFrame.
PredictionEffect_NoCancel(stream, modelState) ==
    IF stream # 0 /\ modelState = "loaded"
    THEN /\ effectLive' = TRUE
         /\ cbPhotoLen' = Len(photos)
         /\ loadedPending' = TRUE
         /\ rafPending' = rafPending
         /\ lastVideoTime' = NoFrame
         /\ videoTime' = 0
         /\ emitsForLast' = 0
    ELSE /\ effectLive' = FALSE
         /\ loadedPending' = FALSE
         /\ rafPending' = rafPending
         /\ UNCHANGED <<cbPhotoLen, lastVideoTime, videoTime, emitsForLast>>

\* The prediction effect of HandManager after a render in which stream or
\* modelLoaded changed: the cleanup of the previous run, then the new run.
PredictionEffect(stream, modelState) ==
    IF stream # 0 /\ modelState = "loaded"
    THEN /\ effectLive' = TRUE
         /\ cbPhotoLen' = Len(photos)       \* onGestureUpdate of this render
         /\ loadedPending' = TRUE           \* srcObject = stream; addEventListener
         /\ rafPending' = FALSE             \* cleanup: cancelAnimationFrame
         /\ lastVideoTime' = NoFrame
         /\ videoTime' = 0
         /\ emitsForLast' = 0
    ELSE /\ effectLive' = FALSE
         /\ loadedPending' = FALSE
         /\ rafPending' = FALSE
         /\ UNCHANGED <<cbPhotoLen, lastVideoTime, videoTime, emitsForLast>>

\* LandingScreen button: handleStart up to its await
ClickStart ==
    /\ mounted /\ ~gameStarted
    /\ pendingStarts < MaxStarts
    /\ pendingStarts' = pendingStarts + 1
    /\ UNCHANGED <<appVars, fieldVars, loopVars, gameStarted, cameraStream, startError,
                   model, mounted>>

\* handleStart after getUserMedia resolved
StartGranted ==
    /\ mounted /\ pendingStarts > 0
    /\ pendingStarts' = pendingStarts - 1
    /\ cameraStream' = cameraStream + 1
    /\ gameStarted' = TRUE
    /\ PredictionEffect(cameraStream', model)
    /\ UNCHANGED <<appVars, fieldVars, startError, model, mounted>>

\* handleStart after getUserMedia rejected
StartDenied ==
    /\ mounted /\ pendingStarts > 0
    /\ pendingStarts' = pendingStarts - 1
    /\ startError' = TRUE
    /\ UNCHANGED <<appVars, fieldVars, loopVars, gameStarted, cameraStream, model, mounted>>

\* initMediaPipe: createFromOptions resolved
ModelLoaded ==
    /\ mounted /\ model = "loading"
    /\ model' = "loaded"
    /\ PredictionEffect(cameraStream, model')
    /\ UNCHANGED <<appVars, fieldVars, gameStarted, cameraStream, startError,
                   pendingStarts, mounted>>

\* initMediaPipe: the catch branch
ModelFailed ==
    /\ mounted /\ model = "loading"
    /\ model' = "error"
    /\ UNCHANGED <<appVars, fieldVars, loopVars, gameStarted, cameraStream, startError,
                   pendingStarts, mounted>>

\* the camera delivers a new frame
VideoAdvance ==
    /\ mounted /\ effectLive
    /\ videoTime < MaxTime
    /\ videoTime' = videoTime + 1
    /\ UNCHANGED <<appVars, fieldVars, effectLive, cbPhotoLen, loadedPending, rafPending,
                   lastVideoTime, emitsForLast, gameStarted, cameraStream, startError,
                   pendingStarts, model, mounted>>

\* onGestureUpdate(state): the handleGestureUpdate the live effect closed over,
\* then the render it causes and the focus effect of PhotoCollection, which
\* runs again only when mode changed.
Emit(g, ptr) ==
    /\ handPos' = ptr
    /\ debugGesture' = g
    /\ mode' = GestureMode(mode, g, cbPhotoLen)
    /\ \E r \in RandomIdx(photos) :
          activeId' = IF mode' # mode THEN FocusEffect(mode', photos, r) ELSE activeId
    /\ prevMode' = mode
    /\ e2e' = E2ENext(e2e, g, Len(photos), mode')
    /\ UNCHANGED photos

\* predictWebcam runs: from the 'loadeddata' listener or as the scheduled
\* animation-frame callback; it always ends by scheduling itself again.
PredictRuns ==
    /\ mounted /\ effectLive
    /\ loadedPending \/ rafPending
    /\ loadedPending' = FALSE
    /\ rafPending' = TRUE
    /\ UNCHANGED <<effectLive, cbPhotoLen, videoTime, fieldVars, gameStarted,
                   cameraStream, startError, pendingStarts, model, mounted>>

\* Variant of NewFrame: the timestamp test is missing.
NewFrame_Always == TRUE

\* videoRef.current.currentTime !== lastVideoTime
NewFrame == videoTime # lastVideoTime

\* predictWebcam, the timestamp has not advanced
FrameSkip ==
    /\ PredictRuns
    /\ ~NewFrame
    /\ UNCHANGED <<appVars, lastVideoTime, emitsForLast>>

\* predictWebcam, detectForVideo returns one hand
FrameHand(landmarks) ==
    /\ PredictRuns
    /\ NewFrame
    /\ lastVideoTime' = videoTime
    /\ Emit(detectGesture(landmarks), Pointer(landmarks))
    /\ emitsForLast' = 1

\* predictWebcam, detectForVideo returns no hand
FrameNoHand ==
    /\ PredictRuns
    /\ NewFrame
    /\ lastVideoTime' = videoTime
    /\ Emit("NONE", NoHandPointer)
    /\ emitsForLast' = 1

\* Variant of predictWebcam without the try/catch: the exception leaves the
\* callback before requestAnimationFrame is reached.
FrameThrows_Propagates ==
    /\ mounted /\ effectLive
    /\ loadedPending \/ rafPending
    /\ NewFrame
    /\ loadedPending' = FALSE
    /\ rafPending' = FALSE
    /\ lastVideoTime' = videoTime
    /\ emitsForLast' = 0
    /\ UNCHANGED <<appVars, fieldVars, effectLive, cbPhotoLen, videoTime, gameStarted,
                   cameraStream, startError, pendingStarts, model, mounted>>

\* predictWebcam, detectForVideo throws: the catch branch only logs
FrameThrows ==
    /\ PredictRuns
    /\ NewFrame
    /\ lastVideoTime' = videoTime
    /\ emitsForLast' = 0
    /\ UNCHANGED appVars

\* Variant of PhotoUpload that enters INSPECT as soon as photos are available.
PhotoUpload_EntersInspect(k) ==
    /\ mounted /\ gameStarted
    /\ Len(photos) + k <= MaxPhotos
    /\ photos' = AppendPhotos(photos, NewUrls(photos, k))
    /\ mode' = "INSPECT"
    /\ \E r \in RandomIdx(photos') : activeId' = FocusEffect(mode', photos', r)
    /\ e2e' = IF e2e = <<>> THEN e2e ELSE Off
    /\ UNCHANGED <<handPos, debugGesture, prevMode, fieldVars, loopVars,
                   gameStarted, cameraStream, startError, pendingStarts, model, mounted>>

\* UIOverlay.handleFileChange with k files, then handlePhotoUpload, the render
\* and the focus effect of PhotoCollection (photos changed)
PhotoUpload(k) ==
    /\ mounted /\ gameStarted
    /\ Len(photos) + k <= MaxPhotos
    /\ photos' = AppendPhotos(photos, NewUrls(photos, k))
    /\ \E r \in RandomIdx(photos') : activeId' = FocusEffect(mode, photos', r)
    /\ e2e' = IF e2e = <<>> THEN e2e ELSE Off
    /\ UNCHANGED <<mode, handPos, debugGesture, prevMode, fieldVars, loopVars,
                   gameStarted, cameraStream, startError, pendingStarts, model, mounted>>

\* one animation frame of TreeFoliage.useFrame with delta * 3 = 1/2
Tick ==
    /\ mounted
    /\ foliageZ' = Lerp(foliageZ, FoliageTargetZ(mode, scatterZ), 1, 2)
    /\ UNCHANGED <<appVars, scatterZ, probe, loopVars, gameStarted, cameraStream,
                   startError, pendingStarts, model, mounted>>

\* the React tree unmounts: the cleanup of the prediction effect
Unmount ==
    /\ mounted
    /\ mounted' = FALSE
    /\ effectLive' = FALSE
    /\ loadedPending' = FALSE       \* removeEventListener
    /\ rafPending' = FALSE          \* cancelAnimationFrame
    /\ UNCHANGED <<appVars, fieldVars, cbPhotoLen, lastVideoTime, videoTime, emitsForLast,
                   gameStarted, cameraStream, startError, pendingStarts, model>>

Next ==
    \/ ClickStart
    \/ StartGranted
    \/ StartDenied
    \/ ModelLoaded
    \/ ModelFailed
    \/ VideoAdvance
    \/ FrameSkip
    \/ \E landmarks \in Hands : FrameHand(landmarks)
    \/ FrameNoHand
    \/ FrameThrows
    \/ \E k \in 1..MaxBatch : PhotoUpload(k)
    \/ Tick
    \/ Unmount

Spec == Init /\ [][Next]_vars

\* One run of predictWebcam, whatever the frame brings.
PredictStep ==
    FrameSkip \/ (\E landmarks \in Hands : FrameHand(landmarks)) \/ FrameNoHand \/ FrameThrows

\* The browser runs a scheduled animation-frame callback, and fires
\* 'loadeddata', as long as it stays scheduled.
FairSpec == Spec /\ WF_vars(PredictStep)

\* ----------------------------------------------- the classifier on its own
nonProbeVars == <<mode, photos, handPos, debugGesture, gameStarted, cameraStream,
                  startError, pendingStarts, model, effectLive, cbPhotoLen, loadedPending,
                  rafPending, lastVideoTime, videoTime, emitsForLast, activeId, foliageZ,
                  scatterZ, mounted, prevMode, e2e>>

InitClassify ==
    /\ AppInit
    /\ probe \in {[op |-> "classify", landmarks |-> h, gesture |-> "?"] : h \in GridHands}

\* const gesture = detectGesture(landmarks)
Classify ==
    /\ probe.op = "classify" /\ probe.gesture = "?"
    /\ probe' = [probe EXCEPT !.gesture = detectGesture(probe.landmarks)]
    /\ UNCHANGED nonProbeVars

SpecClassify == InitClassify /\ [][Classify]_vars

\* ----------------------------------------------- the tree layout on its own
InitTree ==
    /\ AppInit
    /\ probe \in {[op |-> "tree", total |-> t, index |-> i, placed |-> FALSE,
                   yNum |-> 0, radNum |-> 0] : t \in TreeTotals, i \in 0..99}
    /\ probe.index < probe.total

\* const { pos, ... } = getTreeData(i, total)
PlaceTree ==
    /\ probe.op = "tree" /\ ~probe.placed
    /\ LET d == getTreeData(probe.index, probe.total)
       IN  probe' = [probe EXCEPT !.placed = TRUE, !.yNum = d.yNum, !.radNum = d.radNum]
    /\ UNCHANGED nonProbeVars

SpecTree == InitTree /\ [][PlaceTree]_vars

\* --------------------------------- repeated ticks toward a fixed target
\* One coordinate of one record. cur is exact: the coordinate is cur / scale.
InitLerp ==
    /\ AppInit
    /\ probe \in {[op |-> "lerp", kind |-> k, delta |-> d, target |-> t,
                   cur |-> c, scale |-> 1, ticks |-> 0] :
                    k \in {"foliage", "ribbon", "photo"}, d \in Deltas,
                    t \in {-8, 8}, c \in {-2, 0, 2}}

\* p.currentPos.lerp(target, delta * rate); the division in Lerp is exact
\* because both coordinates are first brought to the scale multiplied by delta.den
LerpTick ==
    /\ probe.op = "lerp" /\ probe.ticks < MaxTicks
    /\ LET den == probe.delta.den
           num == probe.delta.num * LerpRate(probe.kind)
       IN  probe' = [probe EXCEPT
                        !.cur = Lerp(probe.cur * den, probe.target * probe.scale * den,
                                     num, den),
                        !.scale = probe.scale * den,
                        !.ticks = probe.ticks + 1]
    /\ UNCHANGED nonProbeVars

SpecLerp == InitLerp /\ [][LerpTick]_vars

\* ------------------------------------- one record across renders and ticks
\* Foliage and ribbons are created at mount, in TREE mode; a photo is created
\* by an upload, in any mode. currentPos starts at treePos.
InitParticle ==
    /\ AppInit
    /\ probe \in {[op |-> "particle", kind |-> k, mode |-> m, treeZ |-> tz, initZ |-> iz,
                   isActive |-> FALSE, cur |-> tz, ticks |-> 0, lastOp |-> "create"] :
                    k \in ParticleKinds, m \in AppMode,
                    tz \in ParticleTreeZs, iz \in ParticleScatterZs}
    /\ probe.kind # "photo" => probe.mode = "TREE"

\* useFrame: currentPos.lerp(target, delta * rate)
ParticleFrame ==
    /\ probe.op = "particle" /\ probe.ticks < MaxTicks
    /\ \E d \in Deltas :
       \E t \in ParticleTargets(probe.kind, probe.mode, probe.treeZ, probe.initZ,
                                probe.isActive) :
            probe' = [probe EXCEPT
                        !.cur = Lerp(probe.cur, t, d.num * LerpRate(probe.kind), d.den),
                        !.ticks = probe.ticks + 1,
                        !.lastOp = "frame"]
    /\ UNCHANGED nonProbeVars

\* A gesture event: App re-renders with mode m (possibly the same). A photo gets
\* freshly computed treePos and initialPos props, and the focus effect runs
\* again when the mode changed.
ParticleGesture(m) ==
    /\ probe.op = "particle"
    /\ \E tz \in ParticleTreeZs, iz \in ParticleScatterZs, a \in BOOLEAN :
        /\ probe.kind # "photo" => (tz = probe.treeZ /\ iz = probe.initZ /\ a = FALSE)
        /\ probe.kind = "photo" =>
              IF m = probe.mode THEN a = probe.isActive
              ELSE (m # "INSPECT" => a = FALSE)
        /\ probe' = [probe EXCEPT
                        !.mode = m, !.treeZ = tz, !.initZ = iz, !.isActive = a,
                        !.cur = RenderCurrentPos(probe.kind, probe.cur, tz),
                        !.lastOp = "gesture"]
    /\ UNCHANGED nonProbeVars

\* A photo upload: PhotoCollection re-renders with a new photos array, the focus
\* effect runs again; the memoized foliage and ribbon records are kept.
ParticleUpload ==
    /\ probe.op = "particle"
    /\ \E tz \in ParticleTreeZs, iz \in ParticleScatterZs, a \in BOOLEAN :
        /\ probe.kind # "photo" => (tz = probe.treeZ /\ iz = probe.initZ /\ a = FALSE)
        /\ probe.kind = "photo" => (probe.mode # "INSPECT" => a = FALSE)
        /\ probe' = [probe EXCEPT
                        !.treeZ = tz, !.initZ = iz, !.isActive = a,
                        !.cur = RenderCurrentPos(probe.kind, probe.cur, tz),
                        !.lastOp = "upload"]
    /\ UNCHANGED nonProbeVars

NextParticle ==
    \/ ParticleFrame
    \/ \E m \in AppMode : ParticleGesture(m)
    \/ ParticleUpload

SpecParticle == InitParticle /\ [][NextParticle]_vars

TypeOK ==
    /\ mode \in AppMode
    /\ debugGesture \in Gesture
    /\ Len(photos) <= MaxPhotos
    /\ activeId \in {NULL} \cup 0..(MaxPhotos - 1)
    /\ cbPhotoLen \in 0..MaxPhotos
    /\ lastVideoTime \in {NoFrame} \cup 0..MaxTime
    /\ videoTime \in 0..MaxTime

\* --------------------------------------------------------------- properties
\* A step in which the tracking loop emits a HandState (FrameHand, FrameNoHand).
EmitStep == lastVideoTime' # lastVideoTime /\ emitsForLast' = 1

\* C1: a PINCH event moves the mode to INSPECT exactly when the current mode is
\* not INSPECT and the number of photos at the time of the event is greater than
\* 0; otherwise the mode is unchanged.
C1_PinchUsesCurrentPhotoCount ==
    [][(EmitStep /\ debugGesture' = "PINCH") =>
          mode' = (IF mode # "INSPECT" /\ Len(photos) > 0 THEN "INSPECT" ELSE mode)]_vars

\* C2: a FIST event sets the mode to TREE, from every mode and for every photo
\* count.
C2_FistSetsTree ==
    [][(EmitStep /\ debugGesture' = "FIST") => mode' = "TREE"]_vars

\* a FIST event was handled in INSPECT, with photos present
C2_Witness ==
    /\ debugGesture = "FIST" /\ prevMode = "INSPECT" /\ mode = "TREE"
    /\ Len(photos) > 0

\* C3: an OPEN event sets the mode to SCATTER, from every mode and for every
\* photo count.
C3_OpenSetsScatter ==
    [][(EmitStep /\ debugGesture' = "OPEN") => mode' = "SCATTER"]_vars

\* an OPEN event was handled in INSPECT, with photos present
C3_Witness ==
    /\ debugGesture = "OPEN" /\ prevMode = "INSPECT" /\ mode = "SCATTER"
    /\ Len(photos) > 0

\* C4: a NONE event, from an ambiguous pose or from a frame without a hand,
\* leaves the mode as it was.
C4_NoneKeepsMode ==
    [][(EmitStep /\ debugGesture' = "NONE") => mode' = mode]_vars

\* a frame without a hand was handled in INSPECT
C4_Witness ==
    /\ debugGesture = "NONE" /\ handPos = NoHandPointer
    /\ prevMode = "INSPECT" /\ mode = "INSPECT"

\* C5: with no photos, a PINCH event leaves the mode where it was (TREE or
\* SCATTER) and enters no error state.
C5_PinchWithoutPhotos ==
    [][(EmitStep /\ debugGesture' = "PINCH" /\ Len(photos) = 0) =>
          /\ mode' = mode
          /\ mode' \in {"TREE", "SCATTER"}
          /\ UNCHANGED <<model, startError>>]_vars

\* a PINCH event was handled in SCATTER with no photos
C5_Witness ==
    /\ debugGesture = "PINCH" /\ Len(photos) = 0
    /\ prevMode = "SCATTER" /\ mode = "SCATTER"

\* C6: a step that takes the mode from INSPECT to another mode is a FIST or
\* OPEN event; no other step leaves INSPECT.
C6_InspectLeftOnlyByFistOrOpen ==
    [][(mode = "INSPECT" /\ mode' # "INSPECT") =>
          (EmitStep /\ debugGesture' \in {"FIST", "OPEN"})]_vars

\* a held PINCH: a PINCH event was handled in INSPECT and the mode is INSPECT
C6_Witness ==
    /\ debugGesture = "PINCH" /\ prevMode = "INSPECT" /\ mode = "INSPECT"
    /\ Len(photos) > cbPhotoLen

\* C7: from TREE with 3 photos, the events OPEN, OPEN, PINCH produce the modes
\* SCATTER, SCATTER, INSPECT and then exactly one photo is focused.
C7_EndToEndScript ==
    (e2e # Off /\ Len(e2e) = Len(Script)) =>
        /\ e2e = <<"SCATTER", "SCATTER", "INSPECT">>
        /\ Cardinality(Focused) = 1

\* C8: at most one photo is focused.
C8_AtMostOneFocused == Cardinality(Focused) <= 1

\* two photos or more in INSPECT, one of them focused
C8_Witness ==
    /\ mode = "INSPECT" /\ Len(photos) >= 2
    /\ Cardinality(Focused) = 1

\* C9: between entering and leaving INSPECT the focus is chosen once: no step
\* that stays in INSPECT changes the focused photo.
C9_FocusChosenOncePerEntry ==
    [][(mode = "INSPECT" /\ mode' = "INSPECT") => activeId' = activeId]_vars

\* C10: exactly one HandState is emitted for every timestamp the running loop
\* has processed.
C10_OneHandStatePerTimestamp ==
    (effectLive /\ lastVideoTime # NoFrame) => emitsForLast = 1

\* The last frame the loop processed is one on which the detector threw.
FailedFrame == lastVideoTime # NoFrame /\ emitsForLast = 0

\* C11: after a frame on which the detector threw, the published HandState is
\* that of "no hand": gesture NONE and pointer (0.5, 0.5).
C11_FailedFramePublishesNoHand ==
    FailedFrame => (debugGesture = "NONE" /\ handPos = NoHandPointer)

\* C12: a detector failure does not stop tracking: after a failed frame the next
\* iteration is scheduled, a frame without a hand can then be processed, and a
\* new timestamp is eventually processed unless the effect is torn down.
C12_FailureKeepsLoopRunning ==
    /\ []((FailedFrame /\ effectLive) => rafPending)
    /\ []((FailedFrame /\ effectLive /\ NewFrame) => ENABLED FrameNoHand)
    /\ ((FailedFrame /\ effectLive /\ NewFrame) ~> (~NewFrame \/ ~effectLive))

\* the detector threw on a frame, the loop is scheduled and a new timestamp waits
C12_Witness ==
    /\ FailedFrame /\ effectLive /\ rafPending
    /\ videoTime > lastVideoTime

\* C13: when the detector fails to initialize, the error state is sticky, the
\* tracking loop never starts (also once a camera stream exists), no HandState
\* is ever emitted and the mode keeps its value.
C13_ModelErrorIsSticky ==
    /\ [](model = "error" =>
            /\ ~effectLive /\ ~loadedPending /\ ~rafPending
            /\ lastVideoTime = NoFrame /\ emitsForLast = 0
            /\ debugGesture = "NONE" /\ handPos = NoHandPointer
            /\ mode = "TREE")
    /\ [][model = "error" => (model' = "error" /\ mode' = mode)]_vars

\* model error with a camera stream granted and a photo uploaded
C13_Witness ==
    /\ model = "error" /\ cameraStream # 0 /\ gameStarted
    /\ Len(photos) > 0

\* ------------------------------------------------ properties of classify
Classified == probe.op = "classify" /\ probe.gesture # "?"

Digits == {<<4, 2>>, <<8, 5>>, <<12, 9>>, <<16, 13>>, <<20, 17>>}

\* tip-to-wrist distance > 1.5 x base-to-wrist distance, on the squares
TipBeyond(lm, d) == 4 * Dist2(lm[d[1]], lm[0]) > 9 * Dist2(lm[d[2]], lm[0])

\* thumb-tip/index-tip distance < 0.05, on the squares
PinchUnder(lm) == Dist2(lm[4], lm[8]) < 25

\* C14: classify returns the first match of: pinch distance < 0.05 -> PINCH; all
\* five digits extended -> OPEN; no digit extended -> FIST; else NONE.
C14_DecisionOrder ==
    Classified =>
        probe.gesture =
            (IF PinchUnder(probe.landmarks) THEN "PINCH"
             ELSE IF \A d \in Digits : TipBeyond(probe.landmarks, d) THEN "OPEN"
             ELSE IF \A d \in Digits : ~TipBeyond(probe.landmarks, d) THEN "FIST"
             ELSE "NONE")

\* PINCH returned for a hand with all five digits extended
C14_Witness ==
    /\ Classified /\ probe.gesture = "PINCH"
    /\ \A d \in Digits : TipBeyond(probe.landmarks, d)

\* C15 as stated: every hand with no digit beyond 1.5 x is classified FIST.
C15_AllCurledIsFist ==
    (Classified /\ \A d \in Digits : ~TipBeyond(probe.landmarks, d)) =>
        probe.gesture = "FIST"

\* C15 amended: every hand with no digit beyond 1.5 x and a pinch distance of
\* at least 0.05 is classified FIST.
C15_AllCurledNoPinchIsFist ==
    (/\ Classified
     /\ \A d \in Digits : ~TipBeyond(probe.landmarks, d)
     /\ ~PinchUnder(probe.landmarks)) =>
        probe.gesture = "FIST"

\* FIST returned for a hand whose middle tip is at exactly 1.5 x the base distance
C15_Witness ==
    /\ Classified /\ probe.gesture = "FIST"
    /\ 4 * Dist2(probe.landmarks[12], probe.landmarks[0])
          = 9 * Dist2(probe.landmarks[9], probe.landmarks[0])

\* C16 as stated: every hand with all five digits beyond 1.5 x is classified OPEN.
C16_AllExtendedIsOpen ==
    (Classified /\ \A d \in Digits : TipBeyond(probe.landmarks, d)) =>
        probe.gesture = "OPEN"

\* C16 amended: every hand with all five digits beyond 1.5 x and a pinch
\* distance of at least 0.05 is classified OPEN.
C16_AllExtendedNoPinchIsOpen ==
    (/\ Classified
     /\ \A d \in Digits : TipBeyond(probe.landmarks, d)
     /\ ~PinchUnder(probe.landmarks)) =>
        probe.gesture = "OPEN"

\* OPEN returned for a hand whose pinch distance is exactly 0.05
C16_Witness ==
    /\ Classified /\ probe.gesture = "OPEN"
    /\ Dist2(probe.landmarks[4], probe.landmarks[8]) = 25

\* ------------------------------------------------ properties of the layout
Placed == probe.op = "tree" /\ probe.placed

\* C17 as stated: with total = 100, index 0 has the maximum height and a cone
\* radius strictly smaller than index 99; height and radius are linear in i.
C17_IndexZeroIsApex ==
    (Placed /\ probe.total = 100) =>
        LET d0 == getTreeData(0, 100)
            d1 == getTreeData(1, 100)
        IN  /\ probe.yNum <= d0.yNum
            /\ probe.index = 99 => d0.radNum < probe.radNum
            /\ probe.yNum - d0.yNum = probe.index * (d1.yNum - d0.yNum)
            /\ probe.radNum - d0.radNum = probe.index * (d1.radNum - d0.radNum)

\* C17 amended: index 0 is the base: y = -TREE_HEIGHT/2, the minimum, with the
\* full radius TREE_RADIUS; every later index is higher with a smaller radius
\* (so radius at 0 > radius at 99); height and radius are linear in i.
C17_IndexZeroIsBase ==
    Placed =>
        LET t == probe.total
            i == probe.index
        IN  /\ 2 * probe.yNum = TreeYDen(t) * (0 - TREE_HEIGHT) + 4 * i * TREE_HEIGHT
            /\ 2 * probe.radNum = TreeRadiusDen(t) * TREE_RADIUS_x2
                                    - 4 * i * TREE_HEIGHT * TREE_RADIUS_x2
            /\ i > 0 => /\ probe.yNum > getTreeData(0, t).yNum
                        /\ probe.radNum < getTreeData(0, t).radNum
            /\ probe.radNum > 0

\* index 99 of 100 is placed: y = 8.82, radius 0.075
C17_Witness ==
    /\ Placed /\ probe.total = 100 /\ probe.index = 99
    /\ probe.yNum * 100 = 882 * TreeYDen(100)
    /\ probe.radNum * 1000 = 75 * TreeRadiusDen(100)

\* ------------------------------------------------ properties of the lerp
Abs(x) == IF x < 0 THEN 0 - x ELSE x

\* C18: with a fixed target and a constant delta, every tick of a record that
\* is not yet at its target strictly decreases its distance to the target, and
\* the record never passes beyond the target.
C18_TickApproachesWithoutOvershoot ==
    [][(probe.op = "lerp" /\ probe'.ticks = probe.ticks + 1
            /\ probe.cur # probe.target * probe.scale) =>
        LET before == probe.target * probe'.scale - probe.cur * probe.delta.den
            after == probe'.target * probe'.scale - probe'.cur
        IN  /\ Abs(after) < Abs(before)
            /\ (before > 0 => after >= 0)
            /\ (before < 0 => after <= 0)]_vars

\* ------------------------------------------------ properties of the records
\* C19: the treePosition of every existing photo record has the same value
\* after every step (mode change, gesture event, photo upload, tick) as before.
C19_PhotoTreePositionFixed ==
    [][\A i \in 0..(Len(photos) - 1) :
            LET before == PhotoTreeY(i, Len(photos))
                after == PhotoTreeY(i, Len(photos'))
            IN  before.num * after.den = after.num * before.den]_vars

\* C20: currentPosition changes only in an animation tick, and then to the
\* interpolation from its previous value toward a target of the current mode;
\* a gesture event, a mode switch or an upload leaves it unchanged.
C20_OnlyTicksMoveRecords ==
    [][probe.op = "particle" =>
        IF probe'.ticks # probe.ticks
        THEN \E d \in Deltas :
             \E t \in ParticleTargets(probe.kind, probe.mode, probe.treeZ, probe.initZ,
                                      probe.isActive) :
                probe'.cur = probe.cur + ((t - probe.cur) * d.num * LerpRate(probe.kind)) \div d.den
        ELSE probe'.cur = probe.cur]_vars

\* a photo in flight right after a gesture switched the mode to INSPECT and
\* gave it new position props
C20_Witness ==
    /\ probe.op = "particle" /\ probe.kind = "photo"
    /\ probe.lastOp = "gesture" /\ probe.mode = "INSPECT" /\ probe.ticks >= 1
    /\ probe.cur # probe.treeZ
    /\ probe.cur \notin ParticleTargets("photo", "INSPECT", probe.treeZ, probe.initZ,
                                        probe.isActive)

\* C21: in INSPECT mode a tick moves every record toward twice its own scatter
\* position, except the focused photo, which moves toward the reading position
\* (0, 0, 15).
C21_InspectTargetsScaledScatter ==
    [][(probe.op = "particle" /\ probe.mode = "INSPECT" /\ probe'.ticks # probe.ticks) =>
        LET t == IF probe.kind = "photo" /\ probe.isActive THEN 15 ELSE 2 * probe.initZ
        IN  \E d \in Deltas :
                probe'.cur = probe.cur + ((t - probe.cur) * d.num * LerpRate(probe.kind)) \div d.den]_vars

\* ------------------------------------------------ properties of the loop
\* the step stays within one run of the prediction effect
SameRun == effectLive /\ effectLive' /\ cameraStream' = cameraStream /\ model' = model

\* C22: while the video timestamp equals the last processed one, a step of the
\* running loop calls no detector (lastVideoTime and the outcome of the last
\* frame stay), emits no HandState (pointer, gesture and mode stay) and leaves
\* the next iteration scheduled.
C22_SameTimestampIsSkipped ==
    [][(videoTime = lastVideoTime /\ SameRun) =>
        /\ UNCHANGED <<handPos, debugGesture, mode>>
        /\ UNCHANGED <<lastVideoTime, emitsForLast>>
        /\ rafPending => rafPending']_vars

\* the loop is scheduled on an already processed PINCH frame
C22_Witness ==
    /\ mounted /\ effectLive /\ rafPending
    /\ videoTime = lastVideoTime /\ emitsForLast = 1
    /\ debugGesture = "PINCH"

\* ------------------------------------------------ properties of App state
\* C23: the mode changes only in a step that emits a HandState; a photo upload,
\* an animation tick, a failed detector call (or a restart of the loop), a
\* model-load failure and the start of a camera stream leave it unchanged.
C23_ModeChangedOnlyByGestures ==
    [][/\ mode' # mode => EmitStep
       /\ (\/ photos' # photos
           \/ foliageZ' # foliageZ
           \/ (lastVideoTime' # lastVideoTime /\ emitsForLast' = 0)
           \/ model' # model
           \/ cameraStream' # cameraStream) => mode' = mode]_vars

\* SCATTER survived an upload, a tick and a failed frame
C23_Witness ==
    /\ mode = "SCATTER" /\ FailedFrame
    /\ Len(photos) > 0 /\ foliageZ # TreeZ

\* C24: the photo sequence is append-only: in every step the sequence before
\* is a prefix of the sequence after, so the count never decreases and no
\* photo is removed or reordered.
C24_PhotosAppendOnly ==
    [][/\ Len(photos') >= Len(photos)
       /\ \A i \in 1..Len(photos) : photos'[i] = photos[i]]_vars

\* more photos than one upload can bring: at least two uploads happened
C24_Witness ==
    /\ Len(photos) > MaxBatch
    /\ \A i, j \in 1..Len(photos) : i < j => photos[i] < photos[j]

\* C25: in every reachable state, mode = INSPECT implies at least one photo.
C25_InspectHasPhotos ==
    mode = "INSPECT" => Len(photos) >= 1

\* INSPECT entered by a loop whose callback saw fewer photos than there are now
C25_Witness ==
    /\ mode = "INSPECT" /\ debugGesture = "PINCH"
    /\ 0 < cbPhotoLen /\ cbPhotoLen < Len(photos)

\* C26: at most one predictWebcam iteration is pending at any time (the
\* 'loadeddata' listener or one animation-frame callback, never both), none is
\* pending without a live effect, and while no effect is live no detector call
\* is made and no HandState is emitted.
C26_AtMostOneLoop ==
    /\ [](~(loadedPending /\ rafPending))
    /\ [](~effectLive => (~loadedPending /\ ~rafPending))
    /\ [](~mounted => ~effectLive)
    /\ [][(~effectLive /\ ~effectLive') =>
            UNCHANGED <<lastVideoTime, emitsForLast, handPos, debugGesture, mode>>]_vars

\* torn down after the loop of a second stream processed a frame
C26_Witness ==
    /\ ~mounted /\ cameraStream >= 2
    /\ lastVideoTime # NoFrame /\ emitsForLast = 1

====
